---- MODULE Spec2Model ----
(***************************************************************************)
(* Model of render-diff / rdv: the render-and-diff pipeline.               *)
(*                                                                         *)
(*  Spec     the rdv command (cmd package with PreRunE / RunE, two         *)
(*           errgroup render tasks, signal.NotifyContext in Execute).      *)
(*  SpecRun  the earlier sequential pipeline: run() of cmd/root.go and     *)
(*           main() of the flag-based program, which end fatal errors      *)
(*           with log.Fatalf.                                              *)
(*  SpecInputs  rdv over the explored --path, working directory and --ref  *)
(*           values (path resolution, upstream lookup, ref validation).    *)
(*  SpecRd   the RunE of render-diff that renders the local side, then the *)
(*           target side, and assumes origin/ for an unqualified ref.      *)
(*  SpecColor  colorizeDiff applied to the lines of a unified diff.        *)
(*  SpecValues  loadValues applied to a list of value files.                *)
(*  SpecValidate  ValidateManifests applied to the results of a manifest.   *)
(***************************************************************************)
EXTENDS Integers, Sequences, FiniteSets, TLC

VARIABLES
    prog,              \* "rdv" (RunE with errgroup), "run" (cmd/root.go), "main" (flag program)
    pc,                \* position of the main goroutine
    validateFlag,      \* --validate
    semanticDiffFlag,  \* --semantic
    localSrc,          \* what the requested path holds in the working tree
    targetSrc,         \* what the requested path holds at the target ref
    lpc,               \* position of the local render task
    tpc,               \* position of the target render task
    err,               \* the err variable of RunE / run, shared by both closures
    errWriter,         \* history: who assigned err last: "main", "local" or "target"
    gErr,              \* errgroup.Group.err (the first non-nil task result)
    localRender,       \* localRender
    targetRender,      \* targetRender
    lRes,              \* history: the error the local render call returned
    tRes,              \* history: the error the target render call returned
    lRet,              \* history: what the local task function returned
    tRet,              \* history: what the target task function returned
    notifyRegistered,  \* signal.NotifyContext has installed its handler
    ctxCancelled,      \* the context handed to ExecuteContext is cancelled
    signals,           \* number of SIGINT/SIGTERM delivered so far
    sigAfterOpen,      \* history: a signal arrived after the snapshot was opened
    sigDuringRender,   \* history: a signal arrived while a render task was outstanding
    snapshotOpened,    \* history: the temporary directory was created
    tempDirExists,     \* the temporary directory is on disk
    registered,        \* the worktree is registered in the repository metadata
    cleanupCalls,      \* number of times the snapshot cleanup was invoked
    deregFailed,       \* history: 'git worktree remove' failed
    rmFailed,          \* history: os.RemoveAll failed
    repoFiles,         \* files of the requested path in the caller's working tree
    snapFiles,         \* files of the requested path inside the snapshot
    out,               \* what was printed on stdout, in order
    diffDone,          \* history: a diff strategy was invoked
    retErr,            \* the error RunE / run returned
    exitCode,          \* process exit code, -1 while running
    renderPathFlag,    \* --path
    cwd,               \* the working directory of the process
    gitRefFlag,        \* --ref
    diff,              \* the argument of colorizeDiff: the lines of a unified diff
    relativePath,      \* relativePath: the path relative to the repository root
    fullRef,           \* fullRef: the ref the run compares against
    validatedRef,      \* history: the ref handed to 'git rev-parse --verify'
    vRes,              \* history: what validate.ValidateManifests returned
    colored,           \* what colorizeDiff returned, one entry per written line
    snapshotRef,       \* history: the ref the worktree was created from
    invoked,           \* history: the diff strategies that were called
    labelRef,          \* history: the ref in the label of the target side
    cleanupLog,        \* history: the cleanup steps and warnings, in order
    valuesFiles,       \* the argument of loadValues: the value files, in order
    loaded,            \* what loadValues returned and logged
    results,           \* the results kubeconform gives ValidateManifests, in document order
    validated          \* what ValidateManifests returned

vars == <<prog, pc, validateFlag, semanticDiffFlag, localSrc, targetSrc, lpc, tpc,
          err, errWriter, gErr, localRender, targetRender, lRes, tRes, lRet, tRet,
          notifyRegistered, ctxCancelled, signals, sigAfterOpen, sigDuringRender, snapshotOpened, tempDirExists,
          registered, cleanupCalls, deregFailed, rmFailed, repoFiles, snapFiles,
          out, diffDone, retErr, exitCode, renderPathFlag, cwd, gitRefFlag, diff,
          relativePath, fullRef, validatedRef, vRes, colored, snapshotRef, invoked,
          labelRef, cleanupLog, valuesFiles, loaded, results, validated>>

-----------------------------------------------------------------------------
(* Bounds *)

\* signals delivered during one run
MaxSignals == 2

\* lines of the diff handed to colorizeDiff
MaxDiffLines == 3

\* value files handed to loadValues
MaxValuesFiles == 3

\* documents of the manifest handed to ValidateManifests
MaxDocuments == 3

-----------------------------------------------------------------------------
(* Error values.  type is the dynamic type of the Go error, cause the errno  *)
(* at the bottom of the chain.                                               *)

Nil == [type |-> "nil", tag |-> "", cause |-> ""]

\* no value yet (the call has not returned)
NotYet == [type |-> "none", tag |-> "", cause |-> ""]

\* fmt.Errorf without %w (the cause is formatted with %s or %v and lost)
ErrorString(tag) == [type |-> "errorString", tag |-> tag, cause |-> ""]

\* fmt.Errorf with %w
WrapError(tag, e) == [type |-> "wrapError", tag |-> tag, cause |-> e.cause]

\* *fs.PathError as returned by os.Stat / os.Open
PathError(errno) == [type |-> "PathError", tag |-> "", cause |-> errno]

\* os.IsNotExist: looks through *PathError, *LinkError and *SyscallError only;
\* it does not unwrap fmt's wrapError and knows nothing of an errorString.
OsIsNotExist(e) == e.type = "PathError" /\ e.cause = "ENOENT"

-----------------------------------------------------------------------------
(* Render inputs *)

NoText == ""

SrcMissing == [kind |-> "missing", deps |-> FALSE, ok |-> FALSE, text |-> NoText]
Helm(deps, ok, text) == [kind |-> "helm", deps |-> deps, ok |-> ok, text |-> text]
Kust(ok, text) == [kind |-> "kustomize", deps |-> FALSE, ok |-> ok, text |-> text]

\* "a", "b": renderable manifests; "!": rendered text that is not parseable YAML
Sources == { SrcMissing,
             Helm(FALSE, TRUE, "a"), Helm(TRUE, TRUE, "a"), Helm(FALSE, TRUE, "!"),
             Helm(FALSE, FALSE, NoText),
             Kust(TRUE, "b"), Kust(FALSE, NoText) }

\* the files a source directory holds before the run
SrcFiles(s) ==
    CASE s.kind = "helm"      -> {"Chart.yaml"}
      [] s.kind = "kustomize" -> {"kustomization.yaml"}
      [] OTHER                -> {}

IsHelmChart(files) == "Chart.yaml" \in files

IsKustomize(files) == "kustomization.yaml" \in files

RenderOut(text, e, files) == [text |-> text, err |-> e, files |-> files]

\* helm.RenderChart: loads the chart, runs the dependency build when the chart
\* declares dependencies (downloading into <chartPath>/charts), then renders.
RenderChart(files, s, buildOk) ==
    LET built == IF s.deps /\ buildOk THEN files \cup {"charts/dep.tgz"} ELSE files
    IN  IF s.deps /\ ~buildOk
          THEN RenderOut(NoText, WrapError("failed to run dependency build", PathError("EIO")), files)
        ELSE IF ~s.ok
          THEN RenderOut(NoText, WrapError("failed to render chart", ErrorString("template")), built)
        ELSE RenderOut(s.text, Nil, built)

\* kustomize.RenderKustomization
RenderKustomization(files, s) ==
    IF s.ok THEN RenderOut(s.text, Nil, files)
    ELSE RenderOut(NoText, WrapError("failed to run kustomize build", ErrorString("build")), files)

\* renderManifests of cmd/root.go: every failure is re-formatted with %s, so
\* the caller receives an errorString.
renderManifests(files, s, buildOk) ==
    IF IsHelmChart(files)
      THEN LET r == RenderChart(files, s, buildOk)
           IN  IF r.err # Nil
                 THEN RenderOut(NoText, ErrorString("failed to render target Chart"), r.files)
                 ELSE r
    ELSE IF IsKustomize(files)
      THEN LET r == RenderKustomization(files, s)
           IN  IF r.err # Nil
                 THEN RenderOut(NoText, ErrorString("failed to build target Kustomization"), r.files)
                 ELSE r
    ELSE RenderOut(NoText, ErrorString("not a valid Helm Chart or Kustomization"), files)

\* diff.RenderManifests of rdv: a path that is no renderable source is reported
\* as a not-found error, every other failure wrapped.
RenderManifests(files, s, buildOk) ==
    IF IsHelmChart(files)
      THEN LET r == RenderChart(files, s, buildOk)
           IN  IF r.err # Nil
                 THEN RenderOut(NoText, WrapError("failed to render target Chart", r.err), r.files)
                 ELSE r
    ELSE IF IsKustomize(files)
      THEN LET r == RenderKustomization(files, s)
           IN  IF r.err # Nil
                 THEN RenderOut(NoText, WrapError("failed to build target Kustomization", r.err), r.files)
                 ELSE r
    ELSE RenderOut(NoText, PathError("ENOENT"), files)

-----------------------------------------------------------------------------
(* Diff strategies and report *)

NoDifferences == "No differences found between rendered manifests."

\* createDiff: Myers edit script in unified form; empty exactly when a = b
CreateDiff(a, b) == IF a = b THEN <<>> ELSE <<"---", "+++", "@@", a, b>>

\* diff.CreateSemanticDiff: fails on unparseable input, no diffs for equal documents
CreateSemanticDiff(a, b) ==
    IF a = "!" \/ b = "!" THEN [err |-> ErrorString("yaml"), diffs |-> <<>>]
    ELSE IF a = b THEN [err |-> Nil, diffs |-> <<>>]
    ELSE [err |-> Nil, diffs |-> <<a, b>>]

\* validate.ValidateManifests: no document, no result; otherwise kubeconform decides
ValidateOutcomes(text) ==
    IF text = NoText THEN {Nil} ELSE {Nil, ErrorString("manifest validation failed")}

-----------------------------------------------------------------------------
(* Paths.  A string is a sequence of one-character strings; a path is kept in *)
(* parsed form (absolute or not, and its segments) and turned back into its   *)
(* string where the code looks at the string.                                 *)

Slash == <<"/">>
Dot == <<".">>
DotDot == <<".", ".">>
DotDotConfig == <<".", ".", "c">>     \* a directory named '..c'
DirA == <<"a">>
DirR == <<"r">>
DirS == <<"s">>
DirE == <<"e">>

AbsPath(segs) == [abs |-> TRUE, segs |-> segs]
RelPath(segs) == [abs |-> FALSE, segs |-> segs]

\* the repository root reported by 'git rev-parse --show-toplevel'
RepoRoot == AbsPath(<<DirR>>)

\* strings.HasPrefix
HasPrefix(s, prefix) == Len(s) >= Len(prefix) /\ SubSeq(s, 1, Len(prefix)) = prefix

RECURSIVE JoinSegs(_)
JoinSegs(segs) ==
    IF segs = <<>> THEN <<>>
    ELSE IF Len(segs) = 1 THEN segs[1]
    ELSE segs[1] \o Slash \o JoinSegs(Tail(segs))

\* the string of a path: "/" for the root, "." for the empty relative path
PathString(p) ==
    IF p.abs THEN Slash \o JoinSegs(p.segs)
    ELSE IF p.segs = <<>> THEN Dot
    ELSE JoinSegs(p.segs)

\* filepath.Clean on the segments: "." dropped, ".." removes the segment before
\* it, is dropped at the root and kept at the front of a relative path
RECURSIVE CleanSegs(_, _, _)
CleanSegs(segs, acc, abs) ==
    IF segs = <<>> THEN acc
    ELSE LET s == Head(segs)
         IN  IF s = Dot THEN CleanSegs(Tail(segs), acc, abs)
             ELSE IF s = DotDot
               THEN IF acc # <<>> /\ acc[Len(acc)] # DotDot
                      THEN CleanSegs(Tail(segs), SubSeq(acc, 1, Len(acc) - 1), abs)
                    ELSE IF abs THEN CleanSegs(Tail(segs), acc, abs)
                    ELSE CleanSegs(Tail(segs), Append(acc, s), abs)
             ELSE CleanSegs(Tail(segs), Append(acc, s), abs)

FilepathClean(p) == [abs |-> p.abs, segs |-> CleanSegs(p.segs, <<>>, p.abs)]

\* filepath.Join(a, b)
FilepathJoin(a, b) == FilepathClean([abs |-> a.abs, segs |-> a.segs \o b.segs])

\* filepath.Abs(p) in working directory wd
FilepathAbs(p, wd) == IF p.abs THEN FilepathClean(p) ELSE FilepathJoin(wd, p)

RECURSIVE CommonLen(_, _)
CommonLen(a, b) ==
    IF a = <<>> \/ b = <<>> \/ Head(a) # Head(b) THEN 0
    ELSE 1 + CommonLen(Tail(a), Tail(b))

\* filepath.Rel(base, targ) for two absolute paths: one ".." for every segment
\* of base past the common prefix, then the rest of targ
FilepathRel(base, targ) ==
    LET b == FilepathClean(base).segs
        t == FilepathClean(targ).segs
        k == CommonLen(b, t)
    IN  RelPath([i \in 1..(Len(b) - k) |-> DotDot] \o SubSeq(t, k + 1, Len(t)))

\* strings.HasPrefix(relativePath, "..") of a path that starts with a dot only
OutsideRepoExactOnly(rel) == PathString(rel) = DotDot

\* strings.HasPrefix(relativePath, "..")
OutsideRepo(rel) == HasPrefix(PathString(rel), DotDot)

\* the values of the path flag and of the working directory that are explored
UserPaths ==
    { RelPath(<<>>), RelPath(<<DirA>>), RelPath(<<Dot, DirA>>),
      RelPath(<<DotDot, DirA>>), RelPath(<<DotDot, DotDot, DirE>>),
      RelPath(<<DotDotConfig>>), RelPath(<<DirA, DotDot, DotDotConfig, DirA>>),
      RelPath(<<DirA, DotDot, DotDot>>),
      AbsPath(<<DirR, DirA>>), AbsPath(<<DirR>>), AbsPath(<<DirE>>), AbsPath(<<>>) }

WorkingDirs == { RepoRoot, AbsPath(<<DirR, DirS>>) }

-----------------------------------------------------------------------------
(* Refs.  A ref name is a sequence of tokens, "/" being a token of its own.   *)

RefMain == <<"main">>
RefHead == <<"HEAD">>
RefDev == <<"dev">>
RefNope == <<"nope">>
RefFeatureX == <<"feature", "/", "x">>
RefOriginMain == <<"origin", "/", "main">>
RefOriginFeatureX == <<"origin", "/", "feature", "/", "x">>
RefOriginTopic == <<"origin", "/", "topic">>
NoRef == <<>>

\* strings.Contains(ref, "/")
ContainsSlash(ref) == \E i \in 1..Len(ref) : ref[i] = "/"

\* the repository: main and feature/x track a branch of origin, the checked-out
\* branch tracks origin/topic, dev is local only, nope does not exist
ExistingRefs ==
    { RefMain, RefHead, RefDev, RefFeatureX, RefOriginMain, RefOriginFeatureX, RefOriginTopic }

\* git rev-parse --abbrev-ref <ref>@{u}: the upstream, NoRef when the command fails
UpstreamOf(ref) ==
    IF ref = RefMain THEN RefOriginMain
    ELSE IF ref = RefFeatureX THEN RefOriginFeatureX
    ELSE IF ref = RefHead THEN RefOriginTopic
    ELSE NoRef

\* git rev-parse --verify --quiet <ref>
RevParseVerify(ref) == ref \in ExistingRefs

\* PreRunE: fullRef is the upstream when the lookup succeeds, else the flag
ResolveUpstream(ref) == IF UpstreamOf(ref) # NoRef THEN UpstreamOf(ref) ELSE ref

\* RunE of render-diff: a name without "/" other than HEAD is taken to mean origin/<name>
AssumeOrigin(ref) ==
    IF ~ContainsSlash(ref) /\ ref # RefHead THEN <<"origin", "/">> \o ref ELSE ref

\* the ref handed to 'git rev-parse --verify': the flag itself
RefToVerifyUnresolved(flag, resolved) == flag

\* the ref handed to 'git rev-parse --verify': the resolved ref
RefToVerify(flag, resolved) == resolved

UserRefs == { RefMain, RefHead, RefDev, RefNope, RefFeatureX, RefOriginMain }

-----------------------------------------------------------------------------
(* loadValues.  A values table has one top-level key t, which is absent, a    *)
(* scalar or a table with the keys a and b.  Every entry is a string: "-" for *)
(* an absent key, "{}" for 't is a table', anything else is a scalar.         *)

Absent == "-"
Table == "{}"

Values(t, a, b) == [t |-> t, a |-> a, b |-> b]

\* chartutil.Values{}
NoValues == Values(Absent, Absent, Absent)

\* the nil map returned next to an error
NilValues == Values("nil", Absent, Absent)

istable(v) == v.t = Table

\* the tables a values file can hold
FileValues ==
    { Values(t, Absent, Absent) : t \in {Absent, "x", "y"} }
      \cup { Values(Table, a, b) : a \in {Absent, "x", "y"}, b \in {Absent, "x"} }

\* a values file on disk: missing, present but not readable (or not YAML), or readable
MissingFile == [kind |-> "missing", vals |-> NoValues]
UnreadableFile == [kind |-> "unreadable", vals |-> NoValues]
ReadableFile(v) == [kind |-> "file", vals |-> v]

ValuesFileKinds == {MissingFile, UnreadableFile} \cup { ReadableFile(v) : v \in FileValues }

\* one key of two tables that both hold it at the same level: dst is kept
CoalesceKey(dv, sv) == IF dv = Absent THEN sv ELSE dv

\* a merge in which the table merged so far takes precedence
CoalesceTablesEarlierWins(dst, src) ==
    IF src.t = Absent THEN dst
    ELSE IF dst.t = Absent THEN src
    ELSE IF istable(src) /\ istable(dst)
      THEN Values(Table, CoalesceKey(src.a, dst.a), CoalesceKey(src.b, dst.b))
    ELSE src

\* chartutil.CoalesceTables(dst, src): dst takes precedence; a key only src
\* holds is copied, two tables under the same key are merged the same way, and
\* a table and a scalar under the same key leave dst as it is (with a warning)
CoalesceTables(dst, src) ==
    IF dst.t = Absent THEN src
    ELSE IF src.t = Absent THEN dst
    ELSE IF istable(src) /\ istable(dst)
      THEN Values(Table, CoalesceKey(dst.a, src.a), CoalesceKey(dst.b, src.b))
    ELSE dst

LoadResult(values, e, log) == [values |-> values, err |-> e, log |-> log]

\* the loop of loadValues from file i on, with the table merged so far
RECURSIVE LoadFrom(_, _, _, _)
LoadFrom(files, i, mergedValues, log) ==
    IF i > Len(files) THEN LoadResult(mergedValues, Nil, log)
    ELSE IF files[i].kind = "missing"
      THEN LoadFrom(files, i + 1, mergedValues, Append(log, <<"not found, skipping", i>>))
    ELSE IF files[i].kind = "unreadable"
      THEN LoadResult(NilValues,
                      WrapError("failed to read values file", ErrorString("read")), log)
    ELSE LoadFrom(files, i + 1, CoalesceTables(files[i].vals, mergedValues), log)

loadValues(files) == LoadFrom(files, 1, NoValues, <<>>)

-----------------------------------------------------------------------------
(* ValidateManifests.  kubeconform gives one result per document.             *)

\* validator.Status
StatusError == "Error"
StatusSkipped == "Skipped"
StatusValid == "Valid"
StatusInvalid == "Invalid"
StatusEmpty == "Empty"

Result(status, kind, name, e) == [status |-> status, kind |-> kind, name |-> name, err |-> e]

\* the resource's kind and name as res.Signature() gives them
Signatures == { <<"Deployment", "web">>, <<"Deployment", "">>, <<"", "">> }

ValidationResults ==
    { Result(st, sig[1], sig[2], "") :
        st \in {StatusSkipped, StatusValid, StatusEmpty}, sig \in Signatures }
      \cup { Result(st, sig[1], sig[2], e) :
               st \in {StatusInvalid, StatusError}, sig \in Signatures, e \in {"e1", "e2"} }

\* buildResourceID(index, &res.Resource)
buildResourceID(index, res) ==
    IF res.kind # "" /\ res.name # ""
      THEN [doc |-> index, kind |-> res.kind, name |-> res.name, at |-> ""]
    ELSE IF res.kind # ""
      THEN [doc |-> index, kind |-> res.kind, name |-> "", at |-> ""]
    ELSE [doc |-> index, kind |-> "", name |-> "", at |-> "path"]

\* one line of the error text
Entry(what, id, e) == [what |-> what, id |-> id, err |-> e]

\* validator.New(nil, validator.Opts{Strict, Debug, SkipKinds}): the default
\* schema location and no cache folder, so no error
ValidatorNewErr == Nil

Returned(failed, entries) == [done |-> TRUE, failed |-> failed, entries |-> entries]

\* the loop over results from result i on
RECURSIVE ValidateFrom(_, _, _, _)
ValidateFrom(rs, i, errs, validationFailed) ==
    IF i > Len(rs) THEN Returned(validationFailed, IF validationFailed THEN errs ELSE <<>>)
    ELSE LET res == rs[i]
             resourceID == buildResourceID(i, res)
         IN  IF res.status = StatusInvalid
               THEN ValidateFrom(rs, i + 1, Append(errs, Entry("is invalid", resourceID, res.err)), TRUE)
             ELSE IF res.status = StatusError
               THEN ValidateFrom(rs, i + 1, Append(errs, Entry("Error processing", resourceID, res.err)), TRUE)
             ELSE ValidateFrom(rs, i + 1, errs, validationFailed)

\* a loop that returns at the first result that is Invalid or Error
RECURSIVE ValidateFirstFailure(_, _)
ValidateFirstFailure(rs, i) ==
    IF i > Len(rs) THEN Returned(FALSE, <<>>)
    ELSE IF rs[i].status = StatusInvalid
      THEN Returned(TRUE, <<Entry("is invalid", buildResourceID(i, rs[i]), rs[i].err)>>)
    ELSE IF rs[i].status = StatusError
      THEN Returned(TRUE, <<Entry("Error processing", buildResourceID(i, rs[i]), rs[i].err)>>)
    ELSE ValidateFirstFailure(rs, i + 1)

ValidateManifestsFirstOnly(rs) == ValidateFirstFailure(rs, 1)

\* ValidateManifests, given the results of v.Validate
ValidateManifests(rs) ==
    IF ValidatorNewErr # Nil THEN Returned(TRUE, <<>>)
    ELSE ValidateFrom(rs, 1, <<>>, FALSE)

-----------------------------------------------------------------------------
(* Snapshot cleanup: 'git worktree remove --force' first, os.RemoveAll second, *)
(* each best-effort.                                                           *)

WorktreeRemove == "git worktree remove --force"
RemoveAll == "os.RemoveAll"
Warning == "Warning: failed to run 'git worktree remove'"

\* a cleanup that gives up when 'git worktree remove' fails
CleanupSnapshotStopOnFailure(deregOk, rmOk) ==
    LET removed == registered /\ deregOk
        left    == tempDirExists /\ ~removed
    IN  /\ cleanupCalls' = cleanupCalls + 1
        /\ registered' = (registered /\ ~removed)
        /\ snapshotRef' = snapshotRef
        /\ deregFailed' = (deregFailed \/ ~removed)
        /\ IF removed
             THEN /\ cleanupLog' = cleanupLog \o <<WorktreeRemove, RemoveAll>>
                  /\ tempDirExists' = FALSE
                  /\ rmFailed' = rmFailed
             ELSE /\ cleanupLog' = cleanupLog \o <<WorktreeRemove, Warning>>
                  /\ tempDirExists' = tempDirExists
                  /\ rmFailed' = rmFailed

CleanupSnapshot(deregOk, rmOk) ==
    LET removed == registered /\ deregOk      \* git removed registration and directory
        left    == tempDirExists /\ ~removed  \* what os.RemoveAll still finds
    IN  /\ cleanupCalls' = cleanupCalls + 1
        /\ cleanupLog' = cleanupLog \o <<WorktreeRemove>>
                            \o (IF removed THEN <<>> ELSE <<Warning>>) \o <<RemoveAll>>
        /\ registered' = (registered /\ ~removed)
        /\ snapshotRef' = snapshotRef
        /\ deregFailed' = (deregFailed \/ ~removed)
        /\ tempDirExists' = (left /\ ~rmOk)
        /\ rmFailed' = (rmFailed \/ (left /\ ~rmOk))

\* os.Exit(code): the process ends at once; deferred calls do not run
OsExit(code) ==
    /\ pc' = "exited"
    /\ exitCode' = code

-----------------------------------------------------------------------------
(* rdv: Execute, PreRunE and RunE                                            *)

TaskRunning(p) == p \notin {"idle", "done"}

Alive == pc \notin {"exited", "killed"}

snapshotVars == <<snapshotOpened, tempDirExists, registered, snapshotRef, cleanupCalls, cleanupLog, deregFailed, rmFailed>>
signalVars == <<notifyRegistered, ctxCancelled, signals, sigAfterOpen, sigDuringRender>>
inputVars == <<prog, validateFlag, semanticDiffFlag, localSrc, targetSrc, renderPathFlag, cwd,
               gitRefFlag, diff>>
resolvedVars == <<relativePath, fullRef, validatedRef>>
auxVars == <<vRes, colored>>
pureVars == <<valuesFiles, loaded, results, validated>>
taskVars == <<lpc, tpc, err, errWriter, gErr, localRender, targetRender>>
histVars == <<lRes, tRes, lRet, tRet>>
fileVars == <<repoFiles, snapFiles>>
resultVars == <<out, diffDone, invoked, labelRef, retErr, exitCode>>

\* 'loaded' before loadValues ran, 'validated' before ValidateManifests ran
NotLoaded == LoadResult(NoValues, NotYet, <<>>)
NotValidated == [done |-> FALSE, failed |-> FALSE, entries |-> <<>>]

\* relativePath before the path was resolved
NoPath == RelPath(<< <<"?">> >>)

\* the state every program starts in, once its flags are parsed
InitState ==
    /\ lpc = "idle"
    /\ tpc = "idle"
    /\ err = Nil
    /\ errWriter = "main"
    /\ gErr = Nil
    /\ localRender = NoText
    /\ targetRender = NoText
    /\ lRes = NotYet
    /\ tRes = NotYet
    /\ lRet = NotYet
    /\ tRet = NotYet
    /\ notifyRegistered = FALSE
    /\ ctxCancelled = FALSE
    /\ signals = 0
    /\ sigAfterOpen = FALSE
    /\ sigDuringRender = FALSE
    /\ snapshotOpened = FALSE
    /\ tempDirExists = FALSE
    /\ registered = FALSE
    /\ cleanupCalls = 0
    /\ deregFailed = FALSE
    /\ rmFailed = FALSE
    /\ repoFiles = SrcFiles(localSrc)
    /\ snapFiles = {}
    /\ out = <<>>
    /\ diffDone = FALSE
    /\ retErr = Nil
    /\ exitCode = -1
    /\ relativePath = NoPath
    /\ fullRef = NoRef
    /\ validatedRef = NoRef
    /\ vRes = NotYet
    /\ colored = <<>>
    /\ snapshotRef = NoRef
    /\ invoked = {}
    /\ labelRef = NoRef
    /\ cleanupLog = <<>>
    /\ loaded = NotLoaded
    /\ validated = NotValidated

Init ==
    /\ prog = "rdv"
    /\ pc = "execute"
    /\ validateFlag \in BOOLEAN
    /\ semanticDiffFlag \in BOOLEAN
    /\ localSrc \in Sources
    /\ targetSrc \in Sources
    /\ renderPathFlag \in {RelPath(<<DirA>>), RelPath(<<DotDot, DirA>>)}
    /\ cwd = RepoRoot
    /\ gitRefFlag \in {RefMain, RefNope}
    /\ diff = <<>>
    /\ valuesFiles = <<>>
    /\ results = <<>>
    /\ InitState

\* RunE returns e before 'defer cleanup()' was reached: nothing is deferred
ReturnEarly(e) ==
    /\ retErr' = e
    /\ pc' = "executed"

\* RunE returns e after 'defer cleanup()': the deferred call runs next
Return(e) ==
    /\ retErr' = e
    /\ pc' = "returned"

\* Execute: signal.NotifyContext(ctx, os.Interrupt, syscall.SIGTERM)
NotifyContextIgnored ==
    /\ pc = "execute"
    /\ pc' = "prerun"
    /\ UNCHANGED <<inputVars, resolvedVars, auxVars, pureVars, histVars, taskVars, signalVars, snapshotVars, fileVars, resultVars>>

NotifyContext ==
    /\ pc = "execute"
    /\ notifyRegistered' = TRUE
    /\ pc' = "prerun"
    /\ UNCHANGED <<inputVars, resolvedVars, auxVars, pureVars, histVars, taskVars, ctxCancelled, signals, sigAfterOpen, sigDuringRender,
                   snapshotVars, fileVars, resultVars>>

\* A SIGINT or SIGTERM is delivered.  With the handler installed the context is
\* cancelled and nothing else happens; without it the default action ends the
\* process.
Signal ==
    /\ Alive
    /\ signals < MaxSignals
    /\ signals' = signals + 1
    /\ sigAfterOpen' = (sigAfterOpen \/ (snapshotOpened /\ cleanupCalls = 0))
    /\ sigDuringRender' = (sigDuringRender \/ TaskRunning(lpc) \/ TaskRunning(tpc))
    /\ IF notifyRegistered
         THEN ctxCancelled' = TRUE /\ pc' = pc
         ELSE ctxCancelled' = ctxCancelled /\ pc' = "killed"
    /\ UNCHANGED <<inputVars, resolvedVars, auxVars, pureVars, histVars, taskVars, notifyRegistered, snapshotVars, fileVars, resultVars>>

\* PreRunE: git lookup, repository root, upstream lookup, ref validation
PreRunE ==
    /\ pc = "prerun"
    /\ \E gitOk \in BOOLEAN :
         IF ~gitOk
           THEN /\ ReturnEarly(ErrorString("git not found in PATH"))
                /\ UNCHANGED <<fullRef, validatedRef>>
           ELSE /\ fullRef' = ResolveUpstream(gitRefFlag)
                /\ validatedRef' = RefToVerify(gitRefFlag, fullRef')
                /\ IF RevParseVerify(validatedRef')
                     THEN pc' = "resolve" /\ retErr' = retErr
                     ELSE ReturnEarly(ErrorString("invalid or non-existent ref"))
    /\ UNCHANGED <<inputVars, relativePath, auxVars, pureVars, histVars, taskVars, signalVars, snapshotVars, fileVars, out, diffDone, invoked, labelRef, exitCode>>

\* RunE: filepath.Abs, filepath.Rel and the outside-the-repository check
ResolvePath ==
    /\ pc = "resolve"
    /\ relativePath' = FilepathRel(RepoRoot, FilepathAbs(renderPathFlag, cwd))
    /\ IF OutsideRepo(relativePath')
         THEN ReturnEarly(ErrorString("outside the git repository root"))
         ELSE pc' = "setup" /\ retErr' = retErr
    /\ UNCHANGED <<inputVars, fullRef, validatedRef, auxVars, pureVars, histVars, taskVars, signalVars, snapshotVars, fileVars, out, diffDone, invoked, labelRef, exitCode>>

\* git.SetupWorkTree followed by 'defer cleanup()'
SetupWorkTree ==
    /\ pc = "setup"
    /\ \E ok \in BOOLEAN :
         IF ok
           THEN /\ snapshotOpened' = TRUE
                /\ tempDirExists' = TRUE
                /\ registered' = TRUE
                /\ snapshotRef' = fullRef
                /\ snapFiles' = SrcFiles(targetSrc)
                /\ pc' = "goLocal"
                /\ retErr' = retErr
           ELSE /\ ReturnEarly(ErrorString("failed to create worktree"))
                /\ UNCHANGED <<snapshotOpened, tempDirExists, registered, snapshotRef, snapFiles>>
    /\ UNCHANGED <<inputVars, resolvedVars, auxVars, pureVars, histVars, taskVars, signalVars, cleanupCalls, cleanupLog, deregFailed, rmFailed,
                   repoFiles, out, diffDone, invoked, labelRef, exitCode>>

\* g.Go(func() error { ... local ... })
GoLocal ==
    /\ pc = "goLocal"
    /\ lpc' = "render"
    /\ pc' = "goTarget"
    /\ UNCHANGED <<inputVars, resolvedVars, auxVars, pureVars, histVars, tpc, err, errWriter, gErr, localRender, targetRender, signalVars,
                   snapshotVars, fileVars, resultVars>>

\* g.Go(func() error { ... target ... })
GoTarget ==
    /\ pc = "goTarget"
    /\ tpc' = "render"
    /\ pc' = "wait"
    /\ UNCHANGED <<inputVars, resolvedVars, auxVars, pureVars, histVars, lpc, err, errWriter, gErr, localRender, targetRender, signalVars,
                   snapshotVars, fileVars, resultVars>>

\* errgroup: a task function returned e; the first non-nil result is kept
TaskReturns(e) == gErr' = IF gErr = Nil THEN e ELSE gErr

LocalReturns(e) == TaskReturns(e) /\ lRet' = e

TargetReturns(e) == TaskReturns(e) /\ tRet' = e

\* localRender, err = diff.RenderManifests(localPath, ...)
LocalRenderCall ==
    /\ Alive /\ lpc = "render"
    /\ \E buildOk \in BOOLEAN :
         LET r == RenderManifests(repoFiles, localSrc, buildOk)
         IN  /\ localRender' = r.text
             /\ err' = r.err
             /\ errWriter' = "local"
             /\ lRes' = r.err
             /\ repoFiles' = r.files
    /\ lpc' = "check"
    /\ UNCHANGED <<inputVars, resolvedVars, auxVars, pureVars, tRes, lRet, tRet, pc, tpc, gErr, targetRender, signalVars, snapshotVars,
                   snapFiles, resultVars>>

\* if err != nil { ... }; if validateFlag { ... }; return nil
LocalCheck ==
    /\ Alive /\ lpc = "check"
    /\ IF err # Nil THEN lpc' = "wrap" /\ gErr' = gErr /\ lRet' = lRet
       ELSE IF validateFlag THEN lpc' = "validate" /\ gErr' = gErr /\ lRet' = lRet
       ELSE lpc' = "done" /\ LocalReturns(Nil)
    /\ UNCHANGED <<inputVars, resolvedVars, auxVars, pureVars, lRes, tRes, tRet, pc, tpc, err, errWriter, localRender, targetRender, signalVars,
                   snapshotVars, fileVars, resultVars>>

\* return fmt.Errorf("failed to render path in local ref: %w", err)
LocalWrap ==
    /\ Alive /\ lpc = "wrap"
    /\ LocalReturns(WrapError("failed to render path in local ref", err))
    /\ lpc' = "done"
    /\ UNCHANGED <<inputVars, resolvedVars, auxVars, pureVars, lRes, tRes, tRet, pc, tpc, err, errWriter, localRender, targetRender, signalVars,
                   snapshotVars, fileVars, resultVars>>

\* err = validate.ValidateManifests(localRender, debugFlag)
LocalValidate ==
    /\ Alive /\ lpc = "validate"
    /\ \E v \in ValidateOutcomes(localRender) : err' = v /\ vRes' = v /\ errWriter' = "local"
    /\ lpc' = "vcheck"
    /\ UNCHANGED <<inputVars, resolvedVars, colored, pureVars, histVars, pc, tpc, gErr, localRender, targetRender, signalVars,
                   snapshotVars, fileVars, resultVars>>

\* if err != nil { ... }; return nil
LocalValidateCheck ==
    /\ Alive /\ lpc = "vcheck"
    /\ IF err # Nil THEN lpc' = "vret" /\ gErr' = gErr /\ lRet' = lRet
       ELSE lpc' = "done" /\ LocalReturns(Nil)
    /\ UNCHANGED <<inputVars, resolvedVars, auxVars, pureVars, lRes, tRes, tRet, pc, tpc, err, errWriter, localRender, targetRender, signalVars,
                   snapshotVars, fileVars, resultVars>>

\* return err
LocalValidateReturn ==
    /\ Alive /\ lpc = "vret"
    /\ LocalReturns(err)
    /\ lpc' = "done"
    /\ UNCHANGED <<inputVars, resolvedVars, auxVars, pureVars, lRes, tRes, tRet, pc, tpc, err, errWriter, localRender, targetRender, signalVars,
                   snapshotVars, fileVars, resultVars>>

\* targetRender, err = diff.RenderManifests(targetPath, ...)
TargetRenderCall ==
    /\ Alive /\ tpc = "render"
    /\ \E buildOk \in BOOLEAN :
         LET r == RenderManifests(snapFiles, targetSrc, buildOk)
         IN  /\ targetRender' = r.text
             /\ err' = r.err
             /\ errWriter' = "target"
             /\ tRes' = r.err
             /\ snapFiles' = r.files
    /\ tpc' = "check"
    /\ UNCHANGED <<inputVars, resolvedVars, auxVars, pureVars, lRes, lRet, tRet, pc, lpc, gErr, localRender, signalVars, snapshotVars,
                   repoFiles, resultVars>>

\* if err != nil { ... }; return nil
TargetCheck ==
    /\ Alive /\ tpc = "check"
    /\ IF err # Nil THEN tpc' = "classify" /\ gErr' = gErr /\ tRet' = tRet
       ELSE tpc' = "done" /\ TargetReturns(Nil)
    /\ UNCHANGED <<inputVars, resolvedVars, auxVars, pureVars, lRes, tRes, lRet, pc, lpc, err, errWriter, localRender, targetRender, signalVars,
                   snapshotVars, fileVars, resultVars>>

\* if os.IsNotExist(err) { targetRender = "" } else { return fmt.Errorf(...%w, err) }
TargetClassify ==
    /\ Alive /\ tpc = "classify"
    /\ IF OsIsNotExist(err)
         THEN targetRender' = NoText /\ TargetReturns(Nil)
         ELSE /\ targetRender' = targetRender
              /\ TargetReturns(WrapError("failed to render target ref manifests", err))
    /\ tpc' = "done"
    /\ UNCHANGED <<inputVars, resolvedVars, auxVars, pureVars, lRes, tRes, lRet, pc, lpc, err, errWriter, localRender, signalVars, snapshotVars,
                   fileVars, resultVars>>

\* g.Wait() returns once both task functions have returned
WaitReadyFirstError == (lpc = "done" /\ tpc = "done") \/ gErr # Nil

WaitReady == lpc = "done" /\ tpc = "done"

\* err = g.Wait(); if err != nil { return err }
Wait ==
    /\ pc = "wait"
    /\ WaitReady
    /\ err' = gErr
    /\ errWriter' = "main"
    /\ IF gErr # Nil THEN Return(gErr) ELSE pc' = "diff" /\ retErr' = retErr
    /\ UNCHANGED <<inputVars, resolvedVars, auxVars, pureVars, histVars, lpc, tpc, gErr, localRender, targetRender, signalVars,
                   snapshotVars, fileVars, out, diffDone, invoked, labelRef, exitCode>>

\* a semantic branch that falls back to the unified diff when it fails
SemanticDiffWithFallback ==
    /\ pc = "diff"
    /\ semanticDiffFlag
    /\ diffDone' = TRUE
    /\ labelRef' = fullRef
    /\ LET r == CreateSemanticDiff(targetRender, localRender)
           d == CreateDiff(targetRender, localRender)
       IN  IF r.err # Nil
             THEN /\ invoked' = invoked \cup {"semantic", "unified"}
                  /\ out' = IF d = <<>> THEN Append(out, NoDifferences)
                             ELSE out \o <<"header", "diff">>
                  /\ Return(Nil)
           ELSE IF Len(r.diffs) = 0
             THEN /\ invoked' = invoked \cup {"semantic"}
                  /\ Return(Nil) /\ out' = Append(out, NoDifferences)
           ELSE /\ invoked' = invoked \cup {"semantic"}
                /\ pc' = "report" /\ retErr' = retErr /\ out' = Append(out, "header")
    /\ UNCHANGED <<inputVars, resolvedVars, auxVars, pureVars, histVars, taskVars, signalVars, snapshotVars, fileVars, exitCode>>

\* the semantic branch: diff.CreateSemanticDiff, then the empty check
SemanticDiff ==
    /\ pc = "diff"
    /\ semanticDiffFlag
    /\ diffDone' = TRUE
    /\ invoked' = invoked \cup {"semantic"}
    /\ labelRef' = fullRef
    /\ LET r == CreateSemanticDiff(targetRender, localRender)
       IN  IF r.err # Nil
             THEN Return(WrapError("error creating dyff", r.err)) /\ out' = out
           ELSE IF Len(r.diffs) = 0
             THEN Return(Nil) /\ out' = Append(out, NoDifferences)
           ELSE pc' = "report" /\ retErr' = retErr /\ out' = Append(out, "header")
    /\ UNCHANGED <<inputVars, resolvedVars, auxVars, pureVars, histVars, taskVars, signalVars, snapshotVars, fileVars, exitCode>>

\* renderedDiff.WriteReport(os.Stdout)
WriteReport ==
    /\ pc = "report"
    /\ \E ok \in BOOLEAN :
         IF ok THEN Return(Nil) /\ out' = Append(out, "report")
         ELSE Return(ErrorString("write report")) /\ out' = out
    /\ UNCHANGED <<inputVars, resolvedVars, auxVars, pureVars, histVars, taskVars, signalVars, snapshotVars, fileVars, diffDone, invoked, labelRef, exitCode>>

\* a unified branch that prints the header before it looks at the result
UnifiedDiffHeaderFirst ==
    /\ pc = "diff"
    /\ ~semanticDiffFlag
    /\ diffDone' = TRUE
    /\ invoked' = invoked \cup {"unified"}
    /\ labelRef' = fullRef
    /\ LET d == CreateDiff(targetRender, localRender)
       IN  out' = IF d = <<>> THEN out \o <<"header", NoDifferences>>
                  ELSE out \o <<"header", "diff">>
    /\ Return(Nil)
    /\ UNCHANGED <<inputVars, resolvedVars, auxVars, pureVars, histVars, taskVars, signalVars, snapshotVars, fileVars, exitCode>>

\* the unified branch: diff.CreateDiff, then print
UnifiedDiff ==
    /\ pc = "diff"
    /\ ~semanticDiffFlag
    /\ diffDone' = TRUE
    /\ invoked' = invoked \cup {"unified"}
    /\ labelRef' = fullRef
    /\ LET d == CreateDiff(targetRender, localRender)
       IN  out' = IF d = <<>> THEN Append(out, NoDifferences)
                  ELSE out \o <<"header", "diff">>
    /\ Return(Nil)
    /\ UNCHANGED <<inputVars, resolvedVars, auxVars, pureVars, histVars, taskVars, signalVars, snapshotVars, fileVars, exitCode>>

\* a cleanup that is called at the end of the success path only
CleanupOnSuccessOnly ==
    /\ pc = "returned"
    /\ pc' = "executed"
    /\ IF retErr = Nil
         THEN \E deregOk \in BOOLEAN, rmOk \in BOOLEAN : CleanupSnapshot(deregOk, rmOk)
         ELSE UNCHANGED snapshotVars
    /\ UNCHANGED <<inputVars, resolvedVars, auxVars, pureVars, histVars, taskVars, signalVars, snapshotOpened, fileVars, resultVars>>

\* defer cleanup(): runs when RunE returns, whatever it returns
DeferredCleanup ==
    /\ pc = "returned"
    /\ pc' = "executed"
    /\ \E deregOk \in BOOLEAN, rmOk \in BOOLEAN : CleanupSnapshot(deregOk, rmOk)
    /\ UNCHANGED <<inputVars, resolvedVars, auxVars, pureVars, histVars, taskVars, signalVars, snapshotOpened, fileVars, resultVars>>

\* Execute: if err != nil { os.Exit(1) }; otherwise main returns
ExecuteExit ==
    /\ pc = "executed"
    /\ OsExit(IF retErr # Nil THEN 1 ELSE 0)
    /\ UNCHANGED <<inputVars, resolvedVars, auxVars, pureVars, histVars, taskVars, signalVars, snapshotVars, fileVars, out, diffDone, invoked, labelRef, retErr>>

Next ==
    \/ NotifyContext
    \/ Signal
    \/ PreRunE
    \/ ResolvePath
    \/ SetupWorkTree
    \/ GoLocal
    \/ GoTarget
    \/ LocalRenderCall
    \/ LocalCheck
    \/ LocalWrap
    \/ LocalValidate
    \/ LocalValidateCheck
    \/ LocalValidateReturn
    \/ TargetRenderCall
    \/ TargetCheck
    \/ TargetClassify
    \/ Wait
    \/ SemanticDiff
    \/ WriteReport
    \/ UnifiedDiff
    \/ DeferredCleanup
    \/ ExecuteExit

Spec == Init /\ [][Next]_vars

\* rdv again, started over every explored --path, working directory and --ref
FewSources == { SrcMissing, Helm(FALSE, TRUE, "a"), Helm(FALSE, FALSE, NoText), Kust(TRUE, "b") }

InitInputs ==
    /\ prog = "rdv"
    /\ pc = "execute"
    /\ validateFlag \in BOOLEAN
    /\ semanticDiffFlag \in BOOLEAN
    /\ localSrc \in FewSources \ {SrcMissing, Kust(TRUE, "b")}
    /\ targetSrc \in FewSources \ {Helm(FALSE, FALSE, NoText)}
    /\ \/ /\ renderPathFlag \in UserPaths
          /\ cwd \in WorkingDirs
          /\ gitRefFlag = RefMain
       \/ /\ renderPathFlag = RelPath(<<DirA>>)
          /\ cwd = RepoRoot
          /\ gitRefFlag \in UserRefs
    /\ diff = <<>>
    /\ valuesFiles = <<>>
    /\ results = <<>>
    /\ InitState

SpecInputs == InitInputs /\ [][Next]_vars

-----------------------------------------------------------------------------
(* The sequential pipeline: run() of cmd/root.go (prog = "run") and main() of *)
(* the flag-based program (prog = "main").  log.Fatalf prints and calls       *)
(* os.Exit(1).                                                                *)

InitRun ==
    /\ prog \in {"run", "main"}
    /\ pc = "r_start"
    /\ validateFlag = FALSE
    /\ semanticDiffFlag = FALSE
    /\ localSrc \in Sources
    /\ targetSrc \in Sources
    /\ renderPathFlag \in {RelPath(<<DirA>>), RelPath(<<DotDot, DirA>>)}
    /\ cwd = RepoRoot
    /\ gitRefFlag \in {RefMain, RefNope}
    /\ diff = <<>>
    /\ valuesFiles = <<>>
    /\ results = <<>>
    /\ InitState

runFixed == <<inputVars, auxVars, pureVars, lpc, tpc, gErr, lRet, tRet, signalVars>>

\* log.Fatal / log.Fatalf
Fatalf == OsExit(1)

\* exec.LookPath, git rev-parse --verify, getRepoRoot, the path checks
RunPrecheck ==
    /\ pc = "r_start"
    /\ \E gitOk \in BOOLEAN :
         IF ~gitOk
           THEN Fatalf /\ UNCHANGED resolvedVars
         ELSE /\ fullRef' = gitRefFlag
              /\ validatedRef' = gitRefFlag
              /\ IF ~RevParseVerify(gitRefFlag)
                   THEN Fatalf /\ relativePath' = relativePath
                 ELSE /\ relativePath' = FilepathRel(RepoRoot, FilepathAbs(renderPathFlag, cwd))
                      /\ IF OutsideRepo(relativePath')
                           THEN Fatalf
                           ELSE pc' = "r_local" /\ exitCode' = exitCode
    /\ UNCHANGED <<runFixed, err, errWriter, localRender, targetRender, lRes, tRes, snapshotVars,
                   fileVars, out, diffDone, invoked, labelRef, retErr>>

\* localRender, err := renderManifests(localPath, localValuesPaths); fatal on error
RunLocalRender ==
    /\ pc = "r_local"
    /\ \E buildOk \in BOOLEAN :
         LET r == renderManifests(repoFiles, localSrc, buildOk)
         IN  /\ localRender' = r.text
             /\ err' = r.err
             /\ errWriter' = "main"
             /\ lRes' = r.err
             /\ repoFiles' = r.files
             /\ IF r.err # Nil THEN Fatalf ELSE pc' = "r_mkdir" /\ exitCode' = exitCode
    /\ UNCHANGED <<runFixed, resolvedVars, targetRender, tRes, snapshotVars, snapFiles, out, diffDone, invoked, labelRef, retErr>>

\* os.MkdirTemp, then the two deferred cleanup closures are registered
RunMkdirTemp ==
    /\ pc = "r_mkdir"
    /\ \E ok \in BOOLEAN :
         IF ok
           THEN /\ tempDirExists' = TRUE
                /\ snapshotOpened' = TRUE
                /\ pc' = "r_add"
                /\ exitCode' = exitCode
           ELSE Fatalf /\ UNCHANGED <<tempDirExists, snapshotOpened>>
    /\ UNCHANGED <<runFixed, resolvedVars, err, errWriter, localRender, targetRender, lRes, tRes, registered, snapshotRef,
                   cleanupCalls, cleanupLog, deregFailed, rmFailed, fileVars, out, diffDone, invoked, labelRef, retErr>>

\* git worktree add -d tempDir ref; fatal on error
RunWorktreeAdd ==
    /\ pc = "r_add"
    /\ \E ok \in BOOLEAN :
         IF ok
           THEN /\ registered' = TRUE
                /\ snapshotRef' = fullRef
                /\ snapFiles' = SrcFiles(targetSrc)
                /\ pc' = "r_target"
                /\ exitCode' = exitCode
           ELSE Fatalf /\ UNCHANGED <<registered, snapshotRef, snapFiles>>
    /\ UNCHANGED <<runFixed, resolvedVars, err, errWriter, localRender, targetRender, lRes, tRes, snapshotOpened,
                   tempDirExists, cleanupCalls, cleanupLog, deregFailed, rmFailed, repoFiles, out,
                   diffDone, invoked, labelRef, retErr>>

\* targetRender, err := renderManifests(targetPath, targetValuesPaths)
\* run(): os.IsNotExist(err) gives the empty target, any other error is fatal;
\* main(): renderManifests itself is fatal on every error.
RunTargetRender ==
    /\ pc = "r_target"
    /\ \E buildOk \in BOOLEAN :
         LET r == renderManifests(snapFiles, targetSrc, buildOk)
         IN  /\ err' = r.err
             /\ errWriter' = "main"
             /\ tRes' = r.err
             /\ snapFiles' = r.files
             /\ IF r.err = Nil
                  THEN targetRender' = r.text /\ pc' = "r_diff" /\ exitCode' = exitCode
                ELSE IF prog = "run" /\ OsIsNotExist(r.err)
                  THEN targetRender' = NoText /\ pc' = "r_diff" /\ exitCode' = exitCode
                ELSE targetRender' = r.text /\ Fatalf
    /\ UNCHANGED <<runFixed, resolvedVars, localRender, lRes, snapshotVars, repoFiles, out, diffDone, invoked, labelRef, retErr>>

\* createDiff and the report; run() ends with 'return err', main() just returns
RunDiff ==
    /\ pc = "r_diff"
    /\ diffDone' = TRUE
    /\ invoked' = invoked \cup {"unified"}
    /\ labelRef' = fullRef
    /\ LET d == CreateDiff(targetRender, localRender)
       IN  out' = IF d = <<>> THEN Append(out, NoDifferences)
                  ELSE out \o <<"header", "diff">>
    /\ retErr' = IF prog = "run" THEN err ELSE Nil
    /\ pc' = "r_return"
    /\ UNCHANGED <<runFixed, resolvedVars, err, errWriter, localRender, targetRender, lRes, tRes, snapshotVars,
                   fileVars, exitCode>>

\* the deferred closures, last registered first: worktree remove, then RemoveAll
RunDefers ==
    /\ pc = "r_return"
    /\ \E deregOk \in BOOLEAN, rmOk \in BOOLEAN : CleanupSnapshot(deregOk, rmOk)
    /\ pc' = "executed"
    /\ UNCHANGED <<runFixed, resolvedVars, err, errWriter, localRender, targetRender, lRes, tRes, snapshotOpened,
                   fileVars, resultVars>>

\* Execute of cmd/root.go: if err != nil { os.Exit(1) }
RunExit ==
    /\ pc = "executed"
    /\ OsExit(IF retErr # Nil THEN 1 ELSE 0)
    /\ UNCHANGED <<runFixed, resolvedVars, err, errWriter, localRender, targetRender, lRes, tRes, snapshotVars,
                   fileVars, out, diffDone, invoked, labelRef, retErr>>

NextRun ==
    \/ RunPrecheck
    \/ RunLocalRender
    \/ RunMkdirTemp
    \/ RunWorktreeAdd
    \/ RunTargetRender
    \/ RunDiff
    \/ RunDefers
    \/ RunExit

SpecRun == InitRun /\ [][NextRun]_vars

-----------------------------------------------------------------------------
(* render-diff: the RunE that renders the local side first, then the target  *)
(* side (prog = "rd").  Errors are returned to Execute; once 'defer           *)
(* cleanup()' is registered the cleanup runs on every return.                 *)

InitRd ==
    /\ prog = "rd"
    /\ pc = "rd_start"
    /\ validateFlag = FALSE
    /\ semanticDiffFlag = FALSE
    /\ localSrc \in FewSources
    /\ targetSrc \in FewSources
    /\ renderPathFlag \in {RelPath(<<DirA>>), RelPath(<<DotDot, DirA>>)}
    /\ cwd = RepoRoot
    /\ gitRefFlag \in UserRefs
    /\ diff = <<>>
    /\ valuesFiles = <<>>
    /\ results = <<>>
    /\ InitState

\* the origin/ assumption, exec.LookPath, git rev-parse --verify, the
\* repository root and the path checks
RdPrecheck ==
    /\ pc = "rd_start"
    /\ fullRef' = AssumeOrigin(gitRefFlag)
    /\ \E gitOk \in BOOLEAN :
         IF ~gitOk
           THEN /\ ReturnEarly(ErrorString("git not found in PATH"))
                /\ UNCHANGED <<validatedRef, relativePath>>
         ELSE /\ validatedRef' = RefToVerify(gitRefFlag, fullRef')
              /\ IF ~RevParseVerify(validatedRef')
                   THEN ReturnEarly(ErrorString("invalid --ref")) /\ relativePath' = relativePath
                 ELSE /\ relativePath' = FilepathRel(RepoRoot, FilepathAbs(renderPathFlag, cwd))
                      /\ IF OutsideRepo(relativePath')
                           THEN ReturnEarly(ErrorString("outside the git repository root"))
                           ELSE pc' = "rd_local" /\ retErr' = retErr
    /\ UNCHANGED <<runFixed, err, errWriter, localRender, targetRender, lRes, tRes, snapshotVars,
                   fileVars, out, diffDone, invoked, labelRef, exitCode>>

\* localRender, err := diff.RenderManifests(localPath, localValuesPaths)
RdLocalRender ==
    /\ pc = "rd_local"
    /\ \E buildOk \in BOOLEAN :
         LET r == RenderManifests(repoFiles, localSrc, buildOk)
         IN  /\ localRender' = r.text
             /\ err' = r.err
             /\ errWriter' = "main"
             /\ lRes' = r.err
             /\ repoFiles' = r.files
             /\ IF r.err # Nil
                  THEN ReturnEarly(ErrorString("failed to render path in local ref"))
                  ELSE pc' = "rd_setup" /\ retErr' = retErr
    /\ UNCHANGED <<runFixed, resolvedVars, targetRender, tRes, snapshotVars, snapFiles, out,
                   diffDone, invoked, labelRef, exitCode>>

\* git.SetupWorkTree(repoRoot, fullRef) followed by 'defer cleanup()'
RdSetupWorkTree ==
    /\ pc = "rd_setup"
    /\ \E ok \in BOOLEAN :
         IF ok
           THEN /\ snapshotOpened' = TRUE
                /\ tempDirExists' = TRUE
                /\ registered' = TRUE
                /\ snapshotRef' = fullRef
                /\ snapFiles' = SrcFiles(targetSrc)
                /\ pc' = "rd_target"
                /\ retErr' = retErr
           ELSE /\ ReturnEarly(ErrorString("failed to create worktree"))
                /\ UNCHANGED <<snapshotOpened, tempDirExists, registered, snapshotRef, snapFiles>>
    /\ UNCHANGED <<runFixed, resolvedVars, err, errWriter, localRender, targetRender, lRes, tRes,
                   cleanupCalls, cleanupLog, deregFailed, rmFailed, repoFiles, out,
                   diffDone, invoked, labelRef, exitCode>>

\* targetRender, err := diff.RenderManifests(targetPath, targetValuesPaths)
RdTargetRender ==
    /\ pc = "rd_target"
    /\ \E buildOk \in BOOLEAN :
         LET r == RenderManifests(snapFiles, targetSrc, buildOk)
         IN  /\ err' = r.err
             /\ errWriter' = "main"
             /\ tRes' = r.err
             /\ snapFiles' = r.files
             /\ IF r.err = Nil
                  THEN targetRender' = r.text /\ pc' = "rd_diff" /\ retErr' = retErr
                ELSE IF OsIsNotExist(r.err)
                  THEN targetRender' = NoText /\ pc' = "rd_diff" /\ retErr' = retErr
                ELSE /\ targetRender' = r.text
                     /\ Return(ErrorString("failed to render target ref manifests"))
    /\ UNCHANGED <<runFixed, resolvedVars, localRender, lRes, snapshotVars, repoFiles, out,
                   diffDone, invoked, labelRef, exitCode>>

\* diff.CreateDiff and the report; return nil
RdDiff ==
    /\ pc = "rd_diff"
    /\ diffDone' = TRUE
    /\ invoked' = invoked \cup {"unified"}
    /\ labelRef' = fullRef
    /\ LET d == CreateDiff(targetRender, localRender)
       IN  out' = IF d = <<>> THEN Append(out, NoDifferences)
                  ELSE out \o <<"header", "diff">>
    /\ Return(Nil)
    /\ UNCHANGED <<runFixed, resolvedVars, err, errWriter, localRender, targetRender, lRes, tRes,
                   snapshotVars, fileVars, exitCode>>

NextRd ==
    \/ RdPrecheck
    \/ RdLocalRender
    \/ RdSetupWorkTree
    \/ RdTargetRender
    \/ RdDiff
    \/ DeferredCleanup
    \/ ExecuteExit

SpecRd == InitRd /\ [][NextRd]_vars

-----------------------------------------------------------------------------
(* colorizeDiff.  A line is a sequence of one-character strings, an ANSI code *)
(* is one element.  The argument is kept as strings.Split(diff, "\n") gives   *)
(* it; the result is the sequence of strings written to the builder.          *)

colorRed == <<"ESC[31m">>
colorGreen == <<"ESC[32m">>
colorCyan == <<"ESC[36m">>
colorReset == <<"ESC[0m">>
Newline == <<"LF">>

\* one iteration of the loop: the first matching case of the switch
ColorizeLine(line) ==
    IF HasPrefix(line, <<"+">>) THEN colorGreen \o line \o colorReset \o Newline
    ELSE IF HasPrefix(line, <<"-">>) THEN colorRed \o line \o colorReset \o Newline
    ELSE IF HasPrefix(line, <<"@", "@">>) THEN colorCyan \o line \o colorReset \o Newline
    ELSE IF HasPrefix(line, <<"-", "-", "-">>) \/ HasPrefix(line, <<"+", "+", "+">>)
      THEN line \o Newline
    ELSE line \o Newline

colorizeDiff(lines) == [i \in 1..Len(lines) |-> ColorizeLine(lines[i])]

\* the lines a unified diff is made of
DiffLines ==
    { <<"-", "-", "-", " ", "a">>, <<"+", "+", "+", " ", "b">>, <<"@", "@", " ", "1">>,
      <<"+", "x">>, <<"-", "x">>, <<" ", "x">>, <<>> }

DiffTexts == UNION { [1..n -> DiffLines] : n \in 1..MaxDiffLines }

InitColor ==
    /\ prog = "colorizeDiff"
    /\ pc = "color"
    /\ validateFlag = FALSE
    /\ semanticDiffFlag = FALSE
    /\ localSrc = SrcMissing
    /\ targetSrc = SrcMissing
    /\ renderPathFlag = RelPath(<<>>)
    /\ cwd = RepoRoot
    /\ gitRefFlag = RefMain
    /\ diff \in DiffTexts
    /\ valuesFiles = <<>>
    /\ results = <<>>
    /\ InitState

Colorize ==
    /\ pc = "color"
    /\ colored' = colorizeDiff(diff)
    /\ pc' = "colored"
    /\ UNCHANGED <<inputVars, resolvedVars, vRes, pureVars, histVars, taskVars, signalVars, snapshotVars,
                   fileVars, resultVars>>

NextColor == Colorize

SpecColor == InitColor /\ [][NextColor]_vars

-----------------------------------------------------------------------------
(* loadValues applied to a list of value files *)

ValuesFileLists == UNION { [1..n -> ValuesFileKinds] : n \in 0..MaxValuesFiles }

InitValues ==
    /\ prog = "loadValues"
    /\ pc = "load"
    /\ validateFlag = FALSE
    /\ semanticDiffFlag = FALSE
    /\ localSrc = SrcMissing
    /\ targetSrc = SrcMissing
    /\ renderPathFlag = RelPath(<<>>)
    /\ cwd = RepoRoot
    /\ gitRefFlag = RefMain
    /\ diff = <<>>
    /\ valuesFiles \in ValuesFileLists
    /\ results = <<>>
    /\ InitState

LoadValues ==
    /\ pc = "load"
    /\ loaded' = loadValues(valuesFiles)
    /\ pc' = "loaded"
    /\ UNCHANGED <<inputVars, resolvedVars, auxVars, valuesFiles, results, validated, histVars,
                   taskVars, signalVars, snapshotVars, fileVars, resultVars>>

NextValues == LoadValues

SpecValues == InitValues /\ [][NextValues]_vars

-----------------------------------------------------------------------------
(* ValidateManifests applied to the results of a manifest *)

ResultLists == UNION { [1..n -> ValidationResults] : n \in 0..MaxDocuments }

InitValidate ==
    /\ prog = "ValidateManifests"
    /\ pc = "validate"
    /\ validateFlag = TRUE
    /\ semanticDiffFlag = FALSE
    /\ localSrc = SrcMissing
    /\ targetSrc = SrcMissing
    /\ renderPathFlag = RelPath(<<>>)
    /\ cwd = RepoRoot
    /\ gitRefFlag = RefMain
    /\ diff = <<>>
    /\ valuesFiles = <<>>
    /\ results \in ResultLists
    /\ InitState

Validate ==
    /\ pc = "validate"
    /\ validated' = ValidateManifests(results)
    /\ pc' = "validated"
    /\ UNCHANGED <<inputVars, resolvedVars, auxVars, valuesFiles, loaded, results, histVars,
                   taskVars, signalVars, snapshotVars, fileVars, resultVars>>

NextValidate == Validate

SpecValidate == InitValidate /\ [][NextValidate]_vars

-----------------------------------------------------------------------------
(* Claims *)

Failed(e) == e \notin {NotYet, Nil}

Ended == pc = "exited"

\* C1: whenever the local render fails, the run ends with a fatal error and no
\* diff is computed or printed, whatever the interleaving and the target outcome.
C1_LocalFailureIsFatal ==
    (Ended /\ Failed(lRes)) => (exitCode = 1 /\ ~diffDone /\ out = <<>>)

\* C2: a target render failure becomes the empty target text with no error
\* exactly when it is a not-found failure; every other target render failure
\* ends the run with a fatal error.
C2_TargetFailureClassified ==
    /\ (tpc = "done" /\ Failed(tRes) /\ OsIsNotExist(tRes)) => (tRet = Nil /\ targetRender = NoText)
    /\ (tpc = "done" /\ Failed(tRes) /\ ~OsIsNotExist(tRes)) => Failed(tRet)
    /\ (Ended /\ Failed(tRes) /\ ~OsIsNotExist(tRes)) => exitCode = 1

\* C3: in run(), when the path is not found at the target ref and the local
\* render succeeded, the target is the empty text, the diff is printed and the
\* process exits with code 0.
C3_NotFoundTargetExitsZero ==
    (prog = "run" /\ Ended /\ lRes = Nil /\ Failed(tRes) /\ targetSrc = SrcMissing)
        => (targetRender = NoText /\ diffDone /\ out # <<>> /\ exitCode = 0)

\* C4: when the requested path does not exist at the target ref, the error
\* renderManifests returns is classified as not-found by os.IsNotExist, and the
\* run does not stop with a fatal error at the target render.
C4_MissingPathIsNotFound ==
    (prog = "run" /\ targetSrc = SrcMissing /\ Failed(tRes))
        => (OsIsNotExist(tRes) /\ ~(Ended /\ ~diffDone))

\* C5: the diff step never starts, and the render step never returns, while a
\* render task is still running.
C5_DiffAfterBothTasks ==
    /\ (pc \in {"diff", "report", "returned"} \/ diffDone) => (lpc = "done" /\ tpc = "done")
    /\ pc \in {"executed", "exited"} => (~TaskRunning(lpc) /\ ~TaskRunning(tpc))

C5_Witness ==
    /\ diffDone /\ out # <<>>
    /\ lpc = "done" /\ tpc = "done"
    /\ lRes = Nil /\ tRes = Nil

\* C6: once the temporary directory exists, every fatal outcome still runs the
\* cleanup (worktree deregistration, directory removal) before the process exits.
C6_FatalStillCleansUp ==
    (Ended /\ snapshotOpened) => (cleanupCalls = 1 /\ (tempDirExists => rmFailed))

\* C7: after SetupWorkTree succeeded the cleanup handle is invoked exactly once
\* on every return path of RunE, and only after the diff was printed or the
\* error decided.
C7_CleanupExactlyOnce ==
    /\ cleanupCalls \in {0, 1}
    /\ (snapshotOpened /\ pc \in {"executed", "exited"}) => cleanupCalls = 1
    /\ ~snapshotOpened => cleanupCalls = 0
    /\ cleanupCalls = 1 =>
         /\ pc \in {"executed", "exited"}
         /\ retErr # Nil \/ (diffDone /\ out # <<>>)

C7_Witness ==
    /\ Ended /\ snapshotOpened /\ cleanupCalls = 1
    /\ retErr = ErrorString("write report")
    /\ exitCode = 1

\* C8: a signal that arrives after the snapshot was opened does not keep the
\* cleanup from running before the process ends; what is left of the snapshot
\* is only what a failed removal step left.
C8_CleanupAfterSignal ==
    (pc \in {"exited", "killed"} /\ sigAfterOpen) =>
        /\ cleanupCalls = 1
        /\ tempDirExists => rmFailed
        /\ registered => deregFailed

C8_Witness ==
    /\ Ended /\ sigAfterOpen /\ sigDuringRender
    /\ cleanupCalls = 1 /\ ~tempDirExists /\ ~registered

\* C9: a signal that arrives while render tasks are outstanding cancels the
\* work: no diff is computed after it, and the run ends with the snapshot
\* cleaned up.
C9_SignalCancelsRender ==
    /\ sigDuringRender => ~diffDone
    /\ (Ended /\ sigDuringRender) => cleanupCalls = 1

\* C10: the files under the requested path of the caller's working tree are
\* the same after the run as before it.
C10_WorkingTreeUntouched ==
    repoFiles = SrcFiles(localSrc)

-----------------------------------------------------------------------------
(* Path resolution and ref resolution *)

\* the path was resolved: relativePath holds what filepath.Rel returned
PathResolved == relativePath # NoPath

\* the path flag names a place that is not at or below the repository root
Escapes(rel) == rel.segs # <<>> /\ rel.segs[1] = DotDot

NothingStarted ==
    /\ ~snapshotOpened
    /\ snapshotRef = NoRef
    /\ lpc = "idle" /\ tpc = "idle"
    /\ lRes = NotYet /\ tRes = NotYet
    /\ invoked = {}

\* C11: a path whose form relative to the repository root begins with a
\* parent-directory segment is refused with the outside-the-repository error,
\* and at no time of such a run is a snapshot created or a render started.
C11_EscapingPathRefused ==
    (PathResolved /\ Escapes(relativePath)) =>
        /\ retErr = ErrorString("outside the git repository root")
        /\ pc \in {"executed", "exited", "killed"}
        /\ NothingStarted

C11_Witness ==
    /\ pc = "exited"
    /\ exitCode = 1
    /\ renderPathFlag = RelPath(<<DirA, DotDot, DotDot>>)
    /\ cwd = RepoRoot
    /\ relativePath = RelPath(<<DotDot>>)
    /\ retErr = ErrorString("outside the git repository root")

\* the absolute path lies at or below the repository root
InsideRepo(p) ==
    /\ Len(p.segs) >= Len(RepoRoot.segs)
    /\ SubSeq(p.segs, 1, Len(RepoRoot.segs)) = RepoRoot.segs

\* C12: every path inside the repository root is resolved without error, a
\* path whose first segment is a directory name that starts with two dots
\* included, and resolving the resulting local path again gives the same
\* repository-relative path.
C12_InsidePathResolves ==
    (PathResolved /\ InsideRepo(FilepathAbs(renderPathFlag, cwd))) =>
        /\ retErr # ErrorString("outside the git repository root")
        /\ FilepathRel(RepoRoot, FilepathAbs(FilepathJoin(RepoRoot, relativePath), cwd))
             = relativePath

RefResolved == validatedRef # NoRef

\* C13: the ref handed to the existence check is the ref the upstream lookup
\* produced; when that ref does not exist the run fails with no snapshot and no
\* render; and the snapshot and the target label use the validated ref.
C13_ValidatedRefIsUsed ==
    /\ RefResolved =>
          /\ validatedRef = fullRef
          /\ fullRef \in {UpstreamOf(gitRefFlag), gitRefFlag}
          /\ UpstreamOf(gitRefFlag) # NoRef => fullRef = UpstreamOf(gitRefFlag)
    /\ (RefResolved /\ validatedRef \notin ExistingRefs) =>
          /\ retErr = ErrorString("invalid or non-existent ref")
          /\ NothingStarted
          /\ relativePath = NoPath
    /\ snapshotRef \in {NoRef, validatedRef}
    /\ labelRef \in {NoRef, validatedRef}
    /\ snapshotOpened => snapshotRef = validatedRef /\ validatedRef \in ExistingRefs
    /\ diffDone => labelRef = validatedRef /\ snapshotRef = validatedRef

C13_Witness ==
    /\ pc = "exited"
    /\ gitRefFlag = RefMain
    /\ validatedRef = RefOriginMain
    /\ snapshotRef = RefOriginMain
    /\ labelRef = RefOriginMain
    /\ out # <<>>

\* C14: a ref that contains "/" or is HEAD is compared literally, whatever
\* upstream is configured for it; only a ref without "/" other than HEAD is
\* replaced by its remote-tracking counterpart.
C14_QualifiedRefIsLiteral ==
    RefResolved =>
        /\ (ContainsSlash(gitRefFlag) \/ gitRefFlag = RefHead) => fullRef = gitRefFlag
        /\ fullRef # gitRefFlag => (~ContainsSlash(gitRefFlag) /\ gitRefFlag # RefHead)

\* no upstream is configured for the ref and origin/<ref> does not exist
NoRemoteCounterpart(ref) ==
    /\ UpstreamOf(ref) = NoRef
    /\ (<<"origin", "/">> \o ref) \notin ExistingRefs

RefRejected ==
    retErr \in {ErrorString("invalid --ref"), ErrorString("invalid or non-existent ref")}

\* C15: a ref without remote-tracking counterpart is validated and compared as
\* the user wrote it, and when it exists locally it is not rejected as invalid.
C15_LocalOnlyRefAccepted ==
    (RefResolved /\ NoRemoteCounterpart(gitRefFlag)) =>
        /\ validatedRef = gitRefFlag
        /\ fullRef = gitRefFlag
        /\ gitRefFlag \in ExistingRefs => ~RefRejected

-----------------------------------------------------------------------------
(* colorizeDiff *)

IsFileHeader(line) == HasPrefix(line, <<"-", "-", "-">>) \/ HasPrefix(line, <<"+", "+", "+">>)

Painted(color, line) == color \o line \o colorReset \o Newline

\* the colouring by kind of line: file headers and context lines stay as they are
ColoredByKind(line) ==
    IF IsFileHeader(line) THEN line \o Newline
    ELSE IF HasPrefix(line, <<"@", "@">>) THEN Painted(colorCyan, line)
    ELSE IF HasPrefix(line, <<"+">>) THEN Painted(colorGreen, line)
    ELSE IF HasPrefix(line, <<"-">>) THEN Painted(colorRed, line)
    ELSE line \o Newline

\* C16: colorizeDiff writes every line once, in order: additions in green,
\* removals in red, '@@' lines in cyan, and the '---' / '+++' file headers and
\* the context lines unchanged, with no colour code.
C16_ColoredByKind ==
    pc = "colored" =>
        /\ Len(colored) = Len(diff)
        /\ \A i \in 1..Len(diff) : colored[i] = ColoredByKind(diff[i])

-----------------------------------------------------------------------------
(* Report *)

Printed(x) == \E i \in 1..Len(out) : out[i] = x

\* the strategy chosen by the flag found nothing to report
EmptyResult ==
    IF semanticDiffFlag
      THEN LET r == CreateSemanticDiff(targetRender, localRender)
           IN  r.err = Nil /\ Len(r.diffs) = 0
      ELSE CreateDiff(targetRender, localRender) = <<>>

\* C17: once a strategy was called, an empty result gives the no-differences
\* message and nothing else, and the run returns nil and exits 0; a result
\* that is not empty never gives the no-differences message; and identical
\* renders give an empty result unless the semantic strategy fails on them.
C17_EmptyResultReport ==
    diffDone =>
        /\ EmptyResult =>
              /\ out = <<NoDifferences>>
              /\ retErr = Nil
              /\ Ended => exitCode = 0
        /\ ~EmptyResult => ~Printed(NoDifferences)
        /\ (targetRender = localRender /\ retErr = Nil) => EmptyResult

C17_Witness ==
    /\ Ended
    /\ ~semanticDiffFlag
    /\ lRes = Nil /\ tRes = Nil
    /\ targetRender = localRender
    /\ out = <<NoDifferences>>
    /\ exitCode = 0

-----------------------------------------------------------------------------
(* Validation *)

\* C18: the validator runs only when --validate was given and only after the
\* local render returned without error, it is never part of the target task,
\* and a run whose validation failed ends with exit code 1 and without a diff.
C18_ValidationGuardsDiff ==
    /\ vRes # NotYet => (validateFlag /\ lRes = Nil)
    /\ tpc \notin {"validate", "vcheck", "vret"}
    /\ (Ended /\ Failed(vRes)) =>
          /\ exitCode = 1
          /\ ~diffDone
          /\ out = <<>>

-----------------------------------------------------------------------------
(* Strategy dispatch *)

ChosenStrategy == IF semanticDiffFlag THEN "semantic" ELSE "unified"

\* the run has got past g.Wait() without an error
PastWait == pc \in {"report", "returned", "executed", "exited"} /\ lRet = Nil /\ tRet = Nil

\* C19: no strategy other than the one the semantic flag selects is ever
\* called, a run that gets past the render step calls exactly that one, and
\* when the semantic strategy fails the run returns its error, exits 1 and
\* prints neither a diff nor the no-differences message.
C19_OneStrategyNoFallback ==
    /\ invoked \subseteq {ChosenStrategy}
    /\ diffDone <=> invoked # {}
    /\ PastWait => invoked = {ChosenStrategy}
    /\ (semanticDiffFlag /\ diffDone
          /\ CreateSemanticDiff(targetRender, localRender).err # Nil) =>
          /\ retErr = WrapError("error creating dyff",
                                CreateSemanticDiff(targetRender, localRender).err)
          /\ out = <<>>
          /\ Ended => exitCode = 1

C19_Witness ==
    /\ Ended
    /\ semanticDiffFlag
    /\ invoked = {"semantic"}
    /\ retErr = WrapError("error creating dyff", ErrorString("yaml"))
    /\ out = <<>>
    /\ exitCode = 1

-----------------------------------------------------------------------------
(* Cleanup order *)

CleanupRan == cleanupCalls > 0

\* C20: the cleanup tries 'git worktree remove' first and os.RemoveAll second;
\* when the worktree removal fails a warning is logged and os.RemoveAll is
\* tried all the same; and the returned error and the exit code are those of
\* the run before the cleanup, whether or not the worktree removal failed.
C20_CleanupBestEffortOrdered ==
    /\ CleanupRan =>
          /\ Head(cleanupLog) = WorktreeRemove
          /\ cleanupLog[Len(cleanupLog)] = RemoveAll
          /\ deregFailed <=> cleanupLog = <<WorktreeRemove, Warning, RemoveAll>>
          /\ ~deregFailed <=> cleanupLog = <<WorktreeRemove, RemoveAll>>
          /\ retErr = (IF prog = "run" THEN err ELSE Nil)
          /\ diffDone /\ out # <<>>
    /\ (CleanupRan /\ Ended) => exitCode = (IF retErr # Nil THEN 1 ELSE 0)
    /\ (CleanupRan /\ Ended /\ deregFailed) => exitCode = 0

C20_Witness ==
    /\ Ended
    /\ prog = "run"
    /\ deregFailed
    /\ ~tempDirExists
    /\ cleanupLog = <<WorktreeRemove, Warning, RemoveAll>>
    /\ exitCode = 0

-----------------------------------------------------------------------------
(* The concurrent render step *)

\* what the local task returns, given its render outcome and the validation outcome
ExpectedLocal ==
    IF Failed(lRes) THEN WrapError("failed to render path in local ref", lRes)
    ELSE IF validateFlag /\ Failed(vRes) THEN vRes
    ELSE Nil

\* what the target task returns, given its render outcome
ExpectedTarget ==
    IF Failed(tRes) /\ ~OsIsNotExist(tRes)
      THEN WrapError("failed to render target ref manifests", tRes)
      ELSE Nil

\* C21: each task's result is determined by the outcomes of its own calls (the
\* local render and the validation; the target render), whatever the schedule,
\* and a task that is about to test or return err finds there the value it
\* assigned itself, not one written by the other task.
C21_ResultFunctionOfOutcomes ==
    /\ lRet # NotYet => lRet = ExpectedLocal
    /\ tRet # NotYet => tRet = ExpectedTarget
    /\ (lRet # NotYet /\ lRes = Nil /\ validateFlag) => vRes # NotYet
    /\ lpc \in {"check", "wrap", "vcheck", "vret"} => errWriter = "local"
    /\ tpc \in {"check", "classify"} => errWriter = "target"

-----------------------------------------------------------------------------
(* loadValues *)

Readable(i) == valuesFiles[i].kind = "file"

FileSets(i) == Readable(i) /\ valuesFiles[i].vals.t # Absent

Last(S) == IF S = {} THEN 0 ELSE CHOOSE i \in S : \A j \in S : j <= i

\* the last file that sets t, and the last one that sets it to a scalar
LastSetter == Last({ i \in 1..Len(valuesFiles) : FileSets(i) })
LastScalarSetter == Last({ i \in 1..Len(valuesFiles) : FileSets(i) /\ ~istable(valuesFiles[i].vals) })

\* the key a or b of the table t: the last file that sets it, among the files
\* that come after the last one that made t a scalar
LastWinsKey(get(_)) ==
    LET S == { i \in 1..Len(valuesFiles) :
                 /\ FileSets(i) /\ istable(valuesFiles[i].vals)
                 /\ i > LastScalarSetter
                 /\ get(valuesFiles[i].vals) # Absent }
    IN  IF S = {} THEN Absent ELSE get(valuesFiles[Last(S)].vals)

GetA(v) == v.a
GetB(v) == v.b

\* every key holds the value of the last file that sets it
LastWins ==
    IF LastSetter = 0 THEN NoValues
    ELSE IF ~istable(valuesFiles[LastSetter].vals) THEN valuesFiles[LastSetter].vals
    ELSE Values(Table, LastWinsKey(GetA), LastWinsKey(GetB))

FirstUnreadable == { i \in 1..Len(valuesFiles) :
                       /\ valuesFiles[i].kind = "unreadable"
                       /\ \A j \in 1..(i - 1) : valuesFiles[j].kind # "unreadable" }

\* the missing files the loop gets to, in order
RECURSIVE SkippedUpTo(_)
SkippedUpTo(n) ==
    IF n = 0 THEN <<>>
    ELSE IF valuesFiles[n].kind = "missing"
      THEN Append(SkippedUpTo(n - 1), <<"not found, skipping", n>>)
    ELSE SkippedUpTo(n - 1)

\* C22: a missing value file is skipped with a warning and is no error; a
\* file that is there but cannot be read makes the load fail with no values;
\* otherwise the files are merged in the order given and every key holds the
\* value of the last file in the list that sets it.
C22_LaterValuesFileWins ==
    pc = "loaded" =>
        /\ loaded.err = Nil <=> FirstUnreadable = {}
        /\ loaded.err # Nil => loaded.values = NilValues
        /\ loaded.err = Nil =>
              /\ loaded.values = LastWins
              /\ loaded.log = SkippedUpTo(Len(valuesFiles))
        /\ \A i \in FirstUnreadable : loaded.log = SkippedUpTo(i - 1)

C22_Witness ==
    /\ pc = "loaded"
    /\ valuesFiles = << ReadableFile(Values(Table, "x", "x")), MissingFile,
                        ReadableFile(Values(Table, "y", Absent)) >>
    /\ loaded = LoadResult(Values(Table, "y", "x"), Nil, << <<"not found, skipping", 2>> >>)

-----------------------------------------------------------------------------
(* ValidateManifests *)

Bad(i) == results[i].status \in {StatusInvalid, StatusError}

BadDocs == { i \in 1..Len(results) : Bad(i) }

====
